---- MODULE Spec2Model ----
(***************************************************************************)
(* A model of node-id3's tag container code (locating, stripping,         *)
(* embedding and extracting an ID3v2 tag in a byte buffer) and of its     *)
(* tag merger (updateTags).  Buffers are sequences of bytes 0..255;       *)
(* offsets are 0-based as in the source, sequences are 1-based.           *)
(***************************************************************************)
EXTENDS Integers, Sequences, FiniteSets, TLC

VARIABLES
    data,       \* the input buffer handed to the tag functions
    pc,         \* which tag function has been applied to data
    position,   \* result of findId3TagPosition(data)
    removed,    \* result of removeId3Tag(data)
    tagBody,    \* result of getId3TagBody(data)
    frames,     \* the frame bytes handed to embedFramesInId3Tag
    tag,        \* result of embedFramesInId3Tag(frames)
    stripped,   \* result of removeId3Tag(tag ++ data)
    newTags,    \* updateTags: the WriteTags argument
    currentRaw, \* updateTags: currentTags.raw (a reference, 0 = undefined)
    heap,       \* updateTags: reference -> raw-tag mapping, as it is now
    heapAtCall, \* updateTags: the heap when updateTags was called
    returned,   \* updateTags: the reference returned
    upc         \* updateTags: "start" or "done"

tagVars == <<data, pc, position, removed, tagBody, frames, tag, stripped>>
updVars == <<newTags, currentRaw, heap, heapAtCall, returned, upc>>
vars == <<data, pc, position, removed, tagBody, frames, tag, stripped,
          newTags, currentRaw, heap, heapAtCall, returned, upc>>

---------------------------------------------------------------------------
(* Bounds of the model. *)

\* longest run of bytes following the generated header
MaxBody == 5
\* longest short frame buffer handed to embedFramesInId3Tag
MaxFrames == 1
\* longest existing sequence of a multi-valued frame
MaxCur == 2
\* longest new sequence of a multi-valued frame
MaxNew == 2

---------------------------------------------------------------------------
(* Buffer primitives (Node's Buffer). *)

Min2(a, b) == IF a < b THEN a ELSE b
Max2(a, b) == IF a > b THEN a ELSE b

\* buffer.subarray(start, end): both ends clamped to the buffer
Slice(buffer, start, end) ==
    LET s == Min2(Max2(start, 0), Len(buffer))
        e == Min2(Max2(end, 0), Len(buffer))
    IN  IF e <= s THEN <<>> ELSE SubSeq(buffer, s + 1, e)

\* const subarray = (buffer, offset, size) => buffer.subarray(offset, offset + size)
subarray(buffer, offset, size) == Slice(buffer, offset, offset + size)

\* buffer.indexOf(pattern, byteOffset): first match at or after byteOffset, else -1
IndexOf(buffer, pattern, from) ==
    LET hits == { i \in Max2(from, 0)..(Len(buffer) - Len(pattern)) :
                     SubSeq(buffer, i + 1, i + Len(pattern)) = pattern }
    IN  IF hits = {} THEN -1
        ELSE CHOOSE i \in hits : \A j \in hits : i <= j

\* bit 7 of a byte
Bit7(b) == (b \div 128) % 2
\* bit 6 of a byte
Bit6(b) == (b \div 64) % 2

---------------------------------------------------------------------------
(* const Header *)

HeaderIdentifier == <<73, 68, 51>>      \* "ID3"
HeaderSize == 10
OffIdentifier == 0
OffVersion == 3
OffRevision == 4
OffFlags == 5
OffSize == 6

---------------------------------------------------------------------------
(* util-size: the synchsafe integer codec. *)

\* encodeSize(n): four 7-bit groups, most significant first
encodeSize(n) ==
    << (n \div 2097152) % 128, (n \div 16384) % 128, (n \div 128) % 128, n % 128 >>

\* decodeSize(bytes): the low 7 bits of each byte, most significant first
decodeSize(bytes) ==
    (bytes[1] % 128) * 2097152 + (bytes[2] % 128) * 16384
        + (bytes[3] % 128) * 128 + (bytes[4] % 128)

---------------------------------------------------------------------------
(* The tag locator. *)

\* ((e0 | e1 | e2 | e3) & 128) === 0
isValidEncodedSize(encodedSize) ==
    Max2(Max2(Bit7(encodedSize[1]), Bit7(encodedSize[2])),
         Max2(Bit7(encodedSize[3]), Bit7(encodedSize[4]))) = 0

\* mutant: the size field is not validated
isValidId3Header_NoSizeCheck(buffer) ==
    /\ Len(buffer) >= HeaderSize
    /\ SubSeq(buffer, 1, 3) = HeaderIdentifier
    /\ buffer[OffVersion + 1] \in {2, 3, 4}
    /\ buffer[OffRevision + 1] # 255

isValidId3Header(buffer) ==
    IF Len(buffer) < HeaderSize THEN FALSE
    ELSE LET identifier == buffer[OffIdentifier + 1] * 65536
                              + buffer[OffIdentifier + 2] * 256
                              + buffer[OffIdentifier + 3]
             majorVersion == buffer[OffVersion + 1]
             revision == buffer[OffRevision + 1]
         IN  IF identifier # 4801587 THEN FALSE           \* 0x494433
             ELSE IF majorVersion = 255 \/ revision = 255 THEN FALSE
             ELSE IF majorVersion \notin {2, 3, 4} THEN FALSE
             ELSE isValidEncodedSize(subarray(buffer, OffSize, 4))

\* the do/while loop of findId3TagPosition, entered with the last position
RECURSIVE FindLoop(_, _)
FindLoop(buffer, last) ==
    LET p == IndexOf(buffer, HeaderIdentifier, last + 1)
    IN  IF p = -1 THEN -1
        ELSE IF isValidId3Header(Slice(buffer, p, Len(buffer))) THEN p
        ELSE FindLoop(buffer, p)

\* mutant: the last valid header is returned instead of the first
findId3TagPosition_Last(buffer) ==
    LET valid == { p \in 0..Len(buffer) :
                     /\ IndexOf(buffer, HeaderIdentifier, p) = p
                     /\ isValidId3Header(Slice(buffer, p, Len(buffer))) }
    IN  IF valid = {} THEN -1
        ELSE CHOOSE p \in valid : \A q \in valid : q <= p

findId3TagPosition(buffer) == FindLoop(buffer, -1)

---------------------------------------------------------------------------
(* The tag assembler. *)

\* mutant: the size is written as a plain big-endian integer
embedFramesInId3Tag_PlainSize(f) ==
    HeaderIdentifier \o <<3, 0, 0>>
        \o << (Len(f) \div 16777216) % 256, (Len(f) \div 65536) % 256,
              (Len(f) \div 256) % 256, Len(f) % 256 >>
        \o f

embedFramesInId3Tag(f) ==
    LET zero == [i \in 1..HeaderSize |-> 0]
        \* header.write("ID3", 0)
        h1 == [i \in 1..HeaderSize |->
                 IF i \in (OffIdentifier + 1)..(OffIdentifier + 3)
                 THEN HeaderIdentifier[i - OffIdentifier] ELSE zero[i]]
        \* header.writeUInt16BE(0x0300, Header.offset.version)
        h2 == [h1 EXCEPT ![OffVersion + 1] = 3, ![OffVersion + 2] = 0]
        \* header.writeUInt16BE(0x0000, Header.offset.flags)
        h3 == [h2 EXCEPT ![OffFlags + 1] = 0, ![OffFlags + 2] = 0]
        \* encodeSize(frames.length).copy(header, Header.offset.size)
        enc == encodeSize(Len(f))
        h4 == [i \in 1..HeaderSize |->
                 IF i \in (OffSize + 1)..(OffSize + 4) THEN enc[i - OffSize] ELSE h3[i]]
    IN  h4 \o f

BufferResult(b) == [kind |-> "buffer", buffer |-> b]
FalseResult == [kind |-> "false", buffer |-> <<>>]

\* mutant: the header's own ten bytes are not counted
removeId3Tag_BodyOnly(d) ==
    LET tagPosition == findId3TagPosition(d)
    IN  IF tagPosition = -1 THEN BufferResult(d)
        ELSE BufferResult(Slice(d, 0, tagPosition)
                \o Slice(d, tagPosition
                               + decodeSize(subarray(d, tagPosition + OffSize, 4)),
                         Len(d)))

removeId3Tag(d) ==
    LET tagPosition == findId3TagPosition(d)
    IN  IF tagPosition = -1 THEN BufferResult(d)
        ELSE LET encodedSize == subarray(d, tagPosition + OffSize, 4)
             IN  IF ~isValidEncodedSize(encodedSize) THEN FalseResult
                 ELSE IF Len(d) >= tagPosition + HeaderSize
                 THEN LET size == decodeSize(encodedSize)
                      IN  BufferResult(Slice(d, 0, tagPosition)
                             \o Slice(d, tagPosition + size + HeaderSize, Len(d)))
                 ELSE BufferResult(d)

---------------------------------------------------------------------------
(* The tag reader's container step. *)

\* the flags parseTagHeaderFlags returns; only extendedHeader is read by the caller
parseTagHeaderFlags(header) ==
    IF Len(header) < HeaderSize
    THEN [unsynchronisation |-> FALSE, extendedHeader |-> FALSE]
    ELSE LET version == header[4]
             flagsByte == header[6]
         IN  IF version = 3 \/ version = 4
             THEN [unsynchronisation |-> Bit7(flagsByte) = 1,
                   extendedHeader |-> Bit6(flagsByte) = 1]
             ELSE [unsynchronisation |-> FALSE, extendedHeader |-> FALSE]

BodyResult(v, b) == [kind |-> "body", version |-> v, buffer |-> b]
UndefinedBody == [kind |-> "undefined", version |-> 0, buffer |-> <<>>]
Throws == [kind |-> "throws", version |-> 0, buffer |-> <<>>]

\* tagData.readUInt32BE(offset), for an offset with four bytes after it
readUInt32BE(buffer, offset) ==
    buffer[offset + 1] * 16777216 + buffer[offset + 2] * 65536
        + buffer[offset + 3] * 256 + buffer[offset + 4]

\* the bytes of a slice shorter than four, its missing bytes read as 0
PadFour(bytes) == [i \in 1..4 |-> IF i <= Len(bytes) THEN bytes[i] ELSE 0]

\* mutant: the version 4 length is taken to exclude its own four bytes, as in version 3
extendedHeaderSizeOf_V4LikeV3(extendedHeader, version, tagData) ==
    IF ~extendedHeader THEN 0
    ELSE IF version = 3 THEN 4 + readUInt32BE(tagData, HeaderSize)
    ELSE IF version = 4 THEN 4 + decodeSize(PadFour(subarray(tagData, HeaderSize, 4)))
    ELSE 0

\* let extendedHeaderSize = 0; if (tagFlags.extendedHeader) { ... }
extendedHeaderSizeOf(extendedHeader, version, tagData) ==
    IF ~extendedHeader THEN 0
    ELSE IF version = 3 THEN 4 + readUInt32BE(tagData, HeaderSize)
    ELSE IF version = 4 THEN decodeSize(PadFour(subarray(tagData, HeaderSize, 4)))
    ELSE 0

\* Two outcomes depend on the runtime, not on this code, and are parameters:
\*   copyChecksStart: Buffer.copy raises ERR_OUT_OF_RANGE when sourceStart lies
\*     beyond the source (newer Node) or copies nothing (older Node);
\*   shortIsNaN: decodeSize of fewer than four bytes is NaN (Buffer.alloc(NaN)
\*     raises) or reads the missing bytes as 0.
getId3TagBody(buffer, copyChecksStart, shortIsNaN) ==
    LET tagPosition == findId3TagPosition(buffer)
    IN  IF tagPosition = -1 THEN UndefinedBody
        ELSE
        LET encodedSize == subarray(buffer, tagPosition + OffSize, 4)
            tagSize == HeaderSize + decodeSize(encodedSize)
            tagData == subarray(buffer, tagPosition, tagSize)
            tagHeader == Slice(tagData, 0, HeaderSize)
            version == tagHeader[OffVersion + 1]
            tagFlags == parseTagHeaderFlags(tagHeader)
        IN  \* tagData.readUInt32BE(Header.size) raises when four bytes are not there
            IF tagFlags.extendedHeader /\ version = 3 /\ Len(tagData) < HeaderSize + 4
            THEN Throws
            ELSE IF tagFlags.extendedHeader /\ version = 4
                    /\ Len(tagData) < HeaderSize + 4 /\ shortIsNaN
            THEN Throws
            ELSE
            LET extendedHeaderSize ==
                    extendedHeaderSizeOf(tagFlags.extendedHeader, version, tagData)
                totalHeaderSize == HeaderSize + extendedHeaderSize
                bodySize == tagSize - totalHeaderSize
            IN  \* Buffer.alloc(bodySize) raises on a negative size
                IF bodySize < 0 THEN Throws
                \* tagData.copy(body, 0, totalHeaderSize)
                ELSE IF totalHeaderSize > Len(tagData) /\ copyChecksStart THEN Throws
                ELSE BodyResult(version,
                        [i \in 1..bodySize |->
                            IF totalHeaderSize + i <= Len(tagData)
                            THEN tagData[totalHeaderSize + i] ELSE 0])

---------------------------------------------------------------------------
(* The generated input buffers. *)

Pattern(n) == [i \in 1..n |-> 100 + i]

MkHeader(ver, rev, flags, size4) == HeaderIdentifier \o <<ver, rev, flags>> \o size4

\* what precedes the generated header: nothing, junk, partial or false signatures
Firsts ==
    { <<>>, <<1, 2>>, <<73, 68>>, HeaderIdentifier,
      MkHeader(3, 0, 0, <<0, 128, 0, 0>>),
      MkHeader(5, 0, 0, <<0, 0, 0, 0>>),
      MkHeader(3, 255, 0, <<0, 0, 0, 0>>),
      MkHeader(3, 0, 0, <<0, 0, 0, 0>>) }

SizeFields == { <<0, 0, 0, 0>>, <<0, 0, 0, 3>>, <<0, 0, 0, 9>>, <<0, 0, 1, 0>>,
                <<0, 0, 0, 128>> }

Headers ==
    { MkHeader(v, 0, fl, sz) : v \in {2, 3, 4}, fl \in {0, 64}, sz \in SizeFields }
      \cup { <<>>, MkHeader(255, 0, 0, <<0, 0, 0, 3>>),
             MkHeader(3, 255, 0, <<0, 0, 0, 3>>),
             MkHeader(5, 0, 0, <<0, 0, 0, 3>>) }

\* the four bytes a set extended-header flag makes the reader interpret
ExtFields == { <<>>, <<0, 0, 0, 0>>, <<0, 0, 0, 2>>, <<0, 0, 0, 6>> }

Buffers ==
    { f \o h \o e \o Pattern(n) :
        f \in Firsts, h \in Headers, e \in ExtFields, n \in 0..MaxBody }

FrameInputs == { Pattern(n) : n \in (0..MaxFrames) \cup {127, 128, 129} }

NoBody == [kind |-> "none", version |-> 0, buffer |-> <<>>]
NoResult == [kind |-> "none", buffer |-> <<>>]

---------------------------------------------------------------------------
(* The tag-buffer specification: each function applied to a generated buffer. *)

IdleUpdate ==
    /\ newTags = <<>>
    /\ currentRaw = 0
    /\ heap = <<>>
    /\ heapAtCall = <<>>
    /\ returned = 0
    /\ upc = "idle"

Init ==
    /\ data \in Buffers
    /\ pc = "start"
    /\ position = -1
    /\ removed = NoResult
    /\ tagBody = NoBody
    /\ frames = <<>>
    /\ tag = <<>>
    /\ stripped = NoResult
    /\ IdleUpdate

Find ==
    /\ pc = "start"
    /\ position' = findId3TagPosition(data)
    /\ pc' = "found"
    /\ UNCHANGED <<data, removed, tagBody, frames, tag, stripped>>
    /\ UNCHANGED updVars

Remove ==
    /\ pc = "start"
    /\ removed' = removeId3Tag(data)
    /\ pc' = "removed"
    /\ UNCHANGED <<data, position, tagBody, frames, tag, stripped>>
    /\ UNCHANGED updVars

Embed ==
    /\ pc = "start"
    /\ \E f \in FrameInputs :
          /\ frames' = f
          /\ tag' = embedFramesInId3Tag(f)
    /\ pc' = "embedded"
    /\ UNCHANGED <<data, position, removed, tagBody, stripped>>
    /\ UNCHANGED updVars

GetBody ==
    /\ pc = "start"
    /\ \E copyChecksStart \in BOOLEAN, shortIsNaN \in BOOLEAN :
          tagBody' = getId3TagBody(data, copyChecksStart, shortIsNaN)
    /\ pc' = "body"
    /\ UNCHANGED <<data, position, removed, frames, tag, stripped>>
    /\ UNCHANGED updVars

\* a file that starts with a written tag, followed by data, has its tag removed
StripEmbedded ==
    /\ pc = "embedded"
    /\ stripped' = removeId3Tag(tag \o data)
    /\ pc' = "stripped"
    /\ UNCHANGED <<data, position, removed, tagBody, frames, tag>>
    /\ UNCHANGED updVars

Next == Find \/ Remove \/ GetBody \/ Embed \/ StripEmbedded

Spec == Init /\ [][Next]_vars

---------------------------------------------------------------------------
(* The tag merger: values, frame options, updateFrameIfMultiple, updateTags. *)

\* JavaScript values of a raw-tag mapping.  An object is reduced to the property
\* name its comparison-key field coerces to (key) and the rest of it (val); an
\* array holds its elements (items) and the names of the non-index properties
\* assigned to it (props).
Undefined == [t |-> "undefined", str |-> "", key |-> "", val |-> "", items |-> <<>>, props |-> {}]
Null == [t |-> "null", str |-> "", key |-> "", val |-> "", items |-> <<>>, props |-> {}]
Str(x) == [t |-> "string", str |-> x, key |-> "", val |-> "", items |-> <<>>, props |-> {}]
Obj(k, v) == [t |-> "object", str |-> "", key |-> k, val |-> v, items |-> <<>>, props |-> {}]
Arr(xs) == [t |-> "array", str |-> "", key |-> "", val |-> "", items |-> xs, props |-> {}]

\* !value
Falsy(v) == v.t \in {"undefined", "null"} \/ (v.t = "string" /\ v.str = "")

\* the members every plain object inherits from Object.prototype that the
\* model's comparison-key values can name
ObjectPrototypeKeys == {"constructor"}

\* an object's property (own key) or undefined
Get(m, id) == IF id \in DOMAIN m THEN m[id] ELSE Undefined
\* m[id] = v
Put(m, id, v) == [x \in (DOMAIN m) \cup {id} |-> IF x = id THEN v ELSE m[x]]

\* ID3Util.getSpecOptions: "" stands for no updateCompareKey
getSpecOptions(id) ==
    CASE id = "TXXX" -> [multiple |-> TRUE, updateCompareKey |-> "description"]
      [] id = "WCOM" -> [multiple |-> TRUE, updateCompareKey |-> ""]
      [] OTHER -> [multiple |-> FALSE, updateCompareKey |-> ""]

\* the alias -> identifier renaming of convertWriteTagsToRawTags
AliasToId(a) ==
    CASE a = "title" -> "TIT2"
      [] a = "userDefinedText" -> "TXXX"
      [] a = "commercialUrl" -> "WCOM"
      [] OTHER -> a

convertWriteTagsToRawTags(tags) ==
    [id \in { AliasToId(a) : a \in DOMAIN tags } |->
        tags[CHOOSE a \in DOMAIN tags : AliasToId(a) = id]]

\* currentTag.forEach((tag, index) => ...): the index of comparison values
RECURSIVE BuildIndex(_, _, _)
BuildIndex(items, i, idx) ==
    IF i > Len(items) THEN idx
    ELSE BuildIndex(items, i + 1,
            IF items[i].t = "object" THEN Put(idx, items[i].key, i) ELSE idx)

\* value in compareValueToFrameIndex: own or inherited property
In(k, idx) == k \in DOMAIN idx \/ k \in ObjectPrototypeKeys

\* newTagArray.forEach((tagValue) => ...), on the array being updated
RECURSIVE MergeByKey(_, _, _, _)
MergeByKey(arr, newItems, j, idx) ==
    IF j > Len(newItems) THEN arr
    ELSE LET tagValue == newItems[j]
         IN  IF tagValue.t = "object" /\ In(tagValue.key, idx)
             THEN IF tagValue.key \in DOMAIN idx
                  \* currentTag[frameIndex] = tagValue
                  THEN MergeByKey([arr EXCEPT !.items[idx[tagValue.key]] = tagValue],
                                  newItems, j + 1, idx)
                  \* frameIndex is an inherited member, not a number: the
                  \* assignment creates a property and leaves the elements alone
                  ELSE MergeByKey([arr EXCEPT !.props = @ \cup {tagValue.key}],
                                  newItems, j + 1, idx)
             \* currentTag.push(tagValue)
             ELSE MergeByKey([arr EXCEPT !.items = Append(@, tagValue)],
                             newItems, j + 1, idx)

\* mutant: without a comparison key the existing records are dropped
updateFrameIfMultiple_DropsCurrent(options, newTag, currentTag) ==
    IF \/ ~options.multiple
       \/ Falsy(newTag)
       \/ Falsy(currentTag)
       \/ currentTag.t # "array"
    THEN Null
    ELSE LET newTagArray == IF newTag.t = "array" THEN newTag.items ELSE <<newTag>>
         IN  IF options.updateCompareKey = ""
             THEN Arr(newTagArray)
             ELSE MergeByKey(currentTag, newTagArray, 1,
                             BuildIndex(currentTag.items, 1, <<>>))

updateFrameIfMultiple(options, newTag, currentTag) ==
    IF \/ ~options.multiple
       \/ Falsy(newTag)
       \/ Falsy(currentTag)
       \/ currentTag.t # "array"
    THEN Null
    ELSE LET newTagArray == IF newTag.t = "array" THEN newTag.items ELSE <<newTag>>
             compareKey == options.updateCompareKey
         IN  IF compareKey = ""
             THEN Arr(currentTag.items \o newTagArray)
             ELSE MergeByKey(currentTag, newTagArray, 1,
                             BuildIndex(currentTag.items, 1, <<>>))

\* Object.keys(newRawTags).map(...) over the identifiers still to be handled
RECURSIVE UpdateEach(_, _, _)
UpdateEach(ids, newRawTags, currentRawTags) ==
    IF ids = {} THEN currentRawTags
    ELSE LET frameIdentifier == CHOOSE id \in ids : TRUE
             newFrame == newRawTags[frameIdentifier]
             updatedFrame == updateFrameIfMultiple(
                                getSpecOptions(frameIdentifier),
                                newFrame,
                                Get(currentRawTags, frameIdentifier))
         IN  UpdateEach(ids \ {frameIdentifier}, newRawTags,
                Put(currentRawTags, frameIdentifier,
                    IF Falsy(updatedFrame) THEN newFrame ELSE updatedFrame))

\* mutant: the merged mapping is built in a copy, which is returned
updateTags_ReturnsCopy(tags, rawRef, h) ==
    LET newRawTags == convertWriteTagsToRawTags(tags)
        source == IF rawRef = 0 THEN <<>> ELSE h[rawRef]
        h1 == Append(h, source)
    IN  [ref |-> Len(h1),
         heap |-> [h1 EXCEPT ![Len(h1)] = UpdateEach(DOMAIN newRawTags, newRawTags, @)]]

\* updateTags(newTags, currentTags), with currentTags.raw a reference into the
\* heap (0: undefined); the result is the reference returned and the heap after
updateTags(tags, rawRef, h) ==
    LET newRawTags == convertWriteTagsToRawTags(tags)
        \* const currentRawTags = currentTags.raw ?? {}
        h1 == IF rawRef = 0 THEN Append(h, <<>>) ELSE h
        ref == IF rawRef = 0 THEN Len(h1) ELSE rawRef
    IN  [ref |-> ref,
         heap |-> [h1 EXCEPT ![ref] = UpdateEach(DOMAIN newRawTags, newRawTags, @)]]

---------------------------------------------------------------------------
(* The generated inputs of updateTags. *)

RECURSIVE SeqsUpTo(_, _)
SeqsUpTo(S, n) ==
    IF n = 0 THEN { <<>> }
    ELSE LET shorter == SeqsUpTo(S, n - 1)
         IN  shorter \cup { Append(q, x) : q \in { r \in shorter : Len(r) = n - 1 }, x \in S }

CompareValues == {"abc", "abcd", "constructor"}

CurItems == { Obj(k, "deg") : k \in CompareValues } \cup { Str("plain") }
NewItems == { Obj(k, "efgh") : k \in CompareValues }
                \cup { Obj("abc", "deg"), Str("plain") }

\* an identifier's existing value: none (the key is absent), or one of these
CurValues(id) ==
    CASE id = "TXXX" -> { Obj("abc", "deg") }
                          \cup { Arr(q) : q \in SeqsUpTo(CurItems, MaxCur) }
      [] id = "WCOM" -> { Arr(<<Str("u1")>>) }
      [] OTHER -> { Str("t1") }

\* a tag's new value: none (the key is absent), or one of these
NewValues(a) ==
    CASE a = "userDefinedText" ->
            { Undefined } \cup { x \in NewItems : x.t = "object" }
                \cup { Arr(q) : q \in SeqsUpTo(NewItems, MaxNew) }
      [] a = "commercialUrl" -> { Str("u2") }
      [] OTHER -> { Str("t2") }

\* stands for a key the mapping does not have
Absent == [t |-> "absent", str |-> "", key |-> "", val |-> "", items |-> <<>>, props |-> {}]

\* the mapping with the three entries given, less the absent ones
Mapping3(k1, v1, k2, v2, k3, v3) ==
    LET all == (k1 :> v1) @@ (k2 :> v2) @@ (k3 :> v3)
    IN  [k \in { x \in {k1, k2, k3} : all[x] # Absent } |-> all[k]]

WriteTagsInputs ==
    { Mapping3("title", t, "userDefinedText", x, "commercialUrl", w) :
        t \in NewValues("title") \cup {Absent},
        x \in NewValues("userDefinedText") \cup {Absent},
        w \in NewValues("commercialUrl") \cup {Absent} }

RawTagsInputs ==
    { Mapping3("TIT2", t, "TXXX", x, "WCOM", w) :
        t \in CurValues("TIT2") \cup {Absent},
        x \in CurValues("TXXX") \cup {Absent},
        w \in CurValues("WCOM") \cup {Absent} }

\* the frame identifiers of the model
Identifiers == {"TIT2", "TXXX", "WCOM"}

IdleTag ==
    /\ data = <<>>
    /\ pc = "idle"
    /\ position = -1
    /\ removed = NoResult
    /\ tagBody = NoBody
    /\ frames = <<>>
    /\ tag = <<>>
    /\ stripped = NoResult

InitUpdate ==
    /\ IdleTag
    /\ newTags \in WriteTagsInputs
    /\ \/ /\ currentRaw = 1
          /\ \E m \in RawTagsInputs : heap = <<m>>
       \/ /\ currentRaw = 0
          /\ heap = <<>>
    /\ heapAtCall = heap
    /\ returned = 0
    /\ upc = "start"

Update ==
    /\ upc = "start"
    /\ LET r == updateTags(newTags, currentRaw, heap)
       IN  /\ returned' = r.ref
           /\ heap' = r.heap
    /\ upc' = "done"
    /\ UNCHANGED <<newTags, currentRaw, heapAtCall>>
    /\ UNCHANGED tagVars

NextUpdate == Update

SpecUpdate == InitUpdate /\ [][NextUpdate]_vars

---------------------------------------------------------------------------
(* Claims about updateTags. *)

\* the translated new tags, the mapping before the call and the mapping returned
NewRaw == convertWriteTagsToRawTags(newTags)
Before == IF currentRaw = 0 THEN <<>> ELSE heapAtCall[currentRaw]
After == heap[returned]

\* the new value of an identifier as a sequence
Normalised(v) == IF v.t = "array" THEN v.items ELSE <<v>>

\* the positions of the records of E whose comparison value is k
Keyed(E, k) == { i \in 1..Len(E) : E[i].t = "object" /\ E[i].key = k }

\* the last record of N whose comparison value is k
LastKeyed(N, k) == N[CHOOSE j \in Keyed(N, k) : \A j2 \in Keyed(N, k) : j2 <= j]

\* every element of the sequence is a record (an object)
AllRecords(xs) == \A i \in 1..Len(xs) : xs[i].t = "object"

\* the identifiers C1 speaks of: a comparison key, an existing sequence of
\* records, new records
MergedByKey(id) ==
    /\ id \in DOMAIN NewRaw
    /\ getSpecOptions(id).multiple
    /\ getSpecOptions(id).updateCompareKey # ""
    /\ Get(Before, id).t = "array"
    /\ ~Falsy(NewRaw[id])
    /\ AllRecords(Get(Before, id).items)
    /\ AllRecords(Normalised(NewRaw[id]))

\* C1: a new record whose comparison value is that of an existing record
\* overwrites it in place, the other new records are appended in the order
\* supplied, and the existing records no new record matches keep value and place.
C1_MergeByCompareKey ==
    upc = "done" =>
        \A id \in Identifiers : MergedByKey(id) =>
            LET E == Get(Before, id).items
                N == Normalised(NewRaw[id])
                R == Get(After, id).items
                Unmatched(n) == ~(n.t = "object" /\ Keyed(E, n.key) # {})
            IN  /\ Get(After, id).t = "array"
                /\ Len(R) >= Len(E)
                /\ \A j \in 1..Len(N) : ~Unmatched(N[j]) =>
                      \E i \in Keyed(E, N[j].key) : R[i] = LastKeyed(N, N[j].key)
                /\ SubSeq(R, Len(E) + 1, Len(R)) = SelectSeq(N, Unmatched)
                /\ \A i \in 1..Len(E) :
                      (E[i].t # "object" \/ Keyed(N, E[i].key) = {}) => R[i] = E[i]

\* the identifiers C2 says are merged: multi-valued, an existing sequence
MultipleOntoSequence(id) ==
    /\ getSpecOptions(id).multiple
    /\ id \in DOMAIN Before
    /\ Before[id].t = "array"

\* C2 as stated, for the identifiers given a new value (not undefined, null or
\* ""): the new value replaces the existing one unless the frame is multi-valued
\* and the existing value is a sequence; then the result is a sequence in which
\* every existing record is still present.
C2_ExistingKept ==
    upc = "done" =>
        \A id \in { x \in DOMAIN NewRaw : ~Falsy(NewRaw[x]) } :
            IF ~MultipleOntoSequence(id) THEN Get(After, id) = NewRaw[id]
            ELSE /\ Get(After, id).t = "array"
                 /\ \A i \in 1..Len(Before[id].items) :
                       \E r \in 1..Len(Get(After, id).items) :
                           Get(After, id).items[r] = Before[id].items[i]

\* C2 amended: the new value also replaces the existing one when it is empty
\* (undefined, null, ""); in the merged result every existing record keeps its
\* place, except that, under a comparison key, an existing record whose value
\* at that key is that of a new record may be replaced by such a new record.
C2_ExistingKeptUnlessOverwritten ==
    upc = "done" =>
        \A id \in DOMAIN NewRaw :
            IF ~MultipleOntoSequence(id) \/ Falsy(NewRaw[id])
            THEN Get(After, id) = NewRaw[id]
            ELSE LET E == Before[id].items
                     N == Normalised(NewRaw[id])
                     R == Get(After, id).items
                 IN  /\ Get(After, id).t = "array"
                     /\ Len(R) >= Len(E)
                     /\ \A i \in 1..Len(E) :
                           \/ R[i] = E[i]
                           \/ /\ getSpecOptions(id).updateCompareKey # ""
                              /\ E[i].t = "object"
                              /\ \E j \in Keyed(N, E[i].key) : R[i] = N[j]

\* a bare new record merged into two existing records, one of which it replaces
C2_Witness ==
    /\ upc = "done"
    /\ "TXXX" \in DOMAIN NewRaw
    /\ NewRaw["TXXX"].t = "object"
    /\ MultipleOntoSequence("TXXX")
    /\ Len(Before["TXXX"].items) = 2
    /\ After["TXXX"].items[1] = Before["TXXX"].items[1]
    /\ After["TXXX"].items[2] = NewRaw["TXXX"]
    /\ After["TXXX"].items[2] # Before["TXXX"].items[2]
    /\ "WCOM" \in DOMAIN NewRaw
    /\ MultipleOntoSequence("WCOM")
    /\ Len(After["WCOM"].items) = 2

\* C3: updateTags returns the existing mapping itself, and an identifier that
\* is no key of the translated new tags has the entry it had before, or none.
C3_OthersUntouched ==
    upc = "done" =>
        /\ currentRaw # 0 => returned = currentRaw
        /\ \A ref \in 1..Len(heapAtCall) : ref # returned => heap[ref] = heapAtCall[ref]
        /\ \A id \in Identifiers \ DOMAIN NewRaw :
              /\ id \in DOMAIN After <=> id \in DOMAIN Before
              /\ Get(After, id) = Get(Before, id)
        /\ DOMAIN After = (DOMAIN Before) \cup (DOMAIN NewRaw)

\* an existing mapping updated under one identifier while another keeps its sequence
C3_Witness ==
    /\ upc = "done"
    /\ currentRaw # 0
    /\ returned = currentRaw
    /\ DOMAIN NewRaw = {"TIT2"}
    /\ "TXXX" \in DOMAIN Before
    /\ Before["TXXX"].t = "array"
    /\ Len(Before["TXXX"].items) > 0
    /\ After["TXXX"] = Before["TXXX"]
    /\ After # Before

---------------------------------------------------------------------------
(* Claims about the tag-buffer functions. *)

\* byte at a 0-based offset
At(b, off) == b[off + 1]

\* the bytes of b from 0-based offset k onward (none when b ends before k)
From(b, k) == [i \in 1..Max2(Len(b) - k, 0) |-> b[k + i]]

\* the first k bytes of b
Upto(b, k) == [i \in 1..Min2(k, Len(b)) |-> b[i]]

SignatureAt(b, p) ==
    /\ p + 3 <= Len(b)
    /\ At(b, p) = 73 /\ At(b, p + 1) = 68 /\ At(b, p + 2) = 51

\* the offsets claim C4 describes, read off the header layout
ClaimedOffsets(b) ==
    { p \in 0..(Len(b) - 10) :
        /\ SignatureAt(b, p)
        /\ At(b, p + 3) \in {2, 3, 4}
        /\ At(b, p + 4) # 255
        /\ \A k \in 6..9 : At(b, p + k) < 128 }

\* a signature with a supported version whose size field has a byte with bit 7 set
CorruptAt(b, p) ==
    /\ p + 10 <= Len(b)
    /\ SignatureAt(b, p)
    /\ At(b, p + 3) \in {2, 3, 4}
    /\ \E k \in 6..9 : At(b, p + k) >= 128

\* the 28-bit value of the four size bytes at 0-based offset off
SynchsafeAt(b, off) ==
    At(b, off) * 2097152 + At(b, off + 1) * 16384 + At(b, off + 2) * 128 + At(b, off + 3)

\* C4: findId3TagPosition returns the smallest offset holding "ID3", a major
\* version in {2,3,4}, a revision other than 0xFF and four size bytes with bit 7
\* clear, with 10 bytes available; it returns -1 exactly when there is none.
C4_FirstValidOffset ==
    pc = "found" =>
        IF ClaimedOffsets(data) = {} THEN position = -1
        ELSE /\ position \in ClaimedOffsets(data)
             /\ \A q \in ClaimedOffsets(data) : position <= q

\* an earlier "ID3" with a size byte of 128 or more was skipped
C4_Witness ==
    /\ pc = "found"
    /\ position > 0
    /\ \E q \in 0..(position - 1) : CorruptAt(data, q)

\* C5 as stated: exactly 10 + s bytes are removed at p; the buffer is returned
\* unchanged when no tag is located.
C5_ExactlyRemoved ==
    pc = "removed" =>
        LET p == findId3TagPosition(data)
        IN  IF p = -1 THEN removed = BufferResult(data)
            ELSE LET s == SynchsafeAt(data, p + 6)
                 IN  /\ removed.kind = "buffer"
                     /\ Len(removed.buffer) = Len(data) - (10 + s)
                     /\ removed.buffer = Upto(data, p) \o From(data, p + 10 + s)

\* C5 amended: the bytes before p followed by the bytes from p + 10 + s onward,
\* which removes 10 + s bytes, or all bytes from p when the buffer ends earlier.
C5_RemovedUpToEnd ==
    pc = "removed" =>
        LET p == findId3TagPosition(data)
        IN  IF p = -1 THEN removed = BufferResult(data)
            ELSE LET s == SynchsafeAt(data, p + 6)
                 IN  /\ removed.kind = "buffer"
                     /\ Len(removed.buffer) = Len(data) - Min2(10 + s, Len(data) - p)
                     /\ removed.buffer = Upto(data, p) \o From(data, p + 10 + s)

\* a tag in the middle of the buffer, with a body and bytes after it
C5_Witness ==
    /\ pc = "removed"
    /\ LET p == findId3TagPosition(data)
       IN  /\ p > 0
           /\ SynchsafeAt(data, p + 6) > 0
           /\ p + 10 + SynchsafeAt(data, p + 6) < Len(data)
           /\ Len(removed.buffer) = Len(data) - (10 + SynchsafeAt(data, p + 6))

\* C6: a buffer whose only "ID3" signatures with a supported version have an
\* invalid size field makes removeId3Tag report failure (false), not "no tag".
C6_CorruptTagReported ==
    (/\ pc = "removed"
     /\ \E q \in 0..Len(data) : CorruptAt(data, q)
     /\ ClaimedOffsets(data) = {})
        => removed.kind = "false"

\* C7: embedFramesInId3Tag returns "ID3", version 3, revision 0, flags 0, a
\* synchsafe size equal to frames.length, then the frame bytes unchanged,
\* whatever tag the buffer being rewritten holds.
C7_EmbeddedHeader ==
    pc \in {"embedded", "stripped"} =>
        /\ Len(tag) = 10 + Len(frames)
        /\ Upto(tag, 6) = <<73, 68, 51, 3, 0, 0>>
        /\ \A k \in 6..9 : At(tag, k) < 128
        /\ SynchsafeAt(tag, 6) = Len(frames)
        /\ From(tag, 10) = frames

\* frames long enough to need two size bytes, embedded while data holds a v4 tag
C7_Witness ==
    /\ pc = "embedded"
    /\ Len(frames) >= 128
    /\ findId3TagPosition(data) >= 0
    /\ At(data, findId3TagPosition(data) + 3) = 4

\* C8: removeId3Tag(embedFramesInId3Tag(F) ++ D) = D.
C8_StripUndoesEmbed ==
    pc = "stripped" => stripped = BufferResult(data)

\* non-empty frames in front of data that itself holds a valid tag
C8_Witness ==
    /\ pc = "stripped"
    /\ Len(frames) > 0
    /\ findId3TagPosition(data) >= 0
    /\ stripped.buffer = data

\* C9: getId3TagBody ends with "no tag" or a version and a body; it never raises.
C9_NeverRaises ==
    pc = "body" => tagBody.kind \in {"undefined", "body"}

\* the header fields claim C10 speaks of, for a tag located at p
DeclaredSize(b, p) == SynchsafeAt(b, p + 6)
FlagSet(b, p) == Bit6(At(b, p + 5)) = 1
\* the claim names an extended header size when the flag is clear, or for v3 and v4
\* when the four length bytes lie inside the buffer and the declared tag
C10_Covered(b, p) ==
    \/ ~FlagSet(b, p)
    \/ /\ At(b, p + 3) \in {3, 4}
       /\ p + 14 <= Len(b)
       /\ DeclaredSize(b, p) >= 4
ClaimedExtSize(b, p) ==
    IF ~FlagSet(b, p) THEN 0
    ELSE IF At(b, p + 3) = 3
    THEN 4 + (At(b, p + 10) * 16777216 + At(b, p + 11) * 65536
                + At(b, p + 12) * 256 + At(b, p + 13))
    ELSE (At(b, p + 10) % 128) * 2097152 + (At(b, p + 11) % 128) * 16384
            + (At(b, p + 12) % 128) * 128 + (At(b, p + 13) % 128)

\* C10 as stated: the body has length declared size - extended header size and
\* its bytes are the buffer bytes from the end of the extended header.
C10_BodyIsBufferBytes ==
    (pc = "body" /\ tagBody.kind = "body"
        /\ C10_Covered(data, findId3TagPosition(data))) =>
        LET p == findId3TagPosition(data)
            start == p + 10 + ClaimedExtSize(data, p)
        IN  /\ Len(tagBody.buffer) = DeclaredSize(data, p) - ClaimedExtSize(data, p)
            /\ \A i \in 1..Len(tagBody.buffer) :
                  /\ start + i <= Len(data)
                  /\ tagBody.buffer[i] = data[start + i]

\* C10 amended: as stated, except that a body byte whose offset lies beyond the
\* end of the buffer is 0.
C10_BodyZeroFilled ==
    (pc = "body" /\ tagBody.kind = "body"
        /\ C10_Covered(data, findId3TagPosition(data))) =>
        LET p == findId3TagPosition(data)
            start == p + 10 + ClaimedExtSize(data, p)
        IN  /\ Len(tagBody.buffer) = DeclaredSize(data, p) - ClaimedExtSize(data, p)
            /\ \A i \in 1..Len(tagBody.buffer) :
                  tagBody.buffer[i] = IF start + i <= Len(data) THEN data[start + i] ELSE 0

\* a version 4 tag with a 6-byte extended header and a body taken from the buffer
C10_Witness ==
    /\ pc = "body"
    /\ tagBody.kind = "body"
    /\ tagBody.version = 4
    /\ FlagSet(data, findId3TagPosition(data))
    /\ C10_Covered(data, findId3TagPosition(data))
    /\ ClaimedExtSize(data, findId3TagPosition(data)) = 6
    /\ Len(tagBody.buffer) = 3
    /\ Len(data) >= findId3TagPosition(data) + 17
    /\ tagBody.buffer[1] = data[findId3TagPosition(data) + 17]
    /\ tagBody.buffer[1] > 0

====
